---- MODULE Spec2Model ----
(***************************************************************************)
(* Model of actix's Supervisor (src/src/supervisor.rs).                    *)
(*                                                                         *)
(* Supervisor<A> owns one Context.  Supervisor::start builds the Context   *)
(* on the caller's arbiter and spawns the Supervisor there;                *)
(* Supervisor::start_in creates the channel on the calling thread, sends   *)
(* an Execute closure to the target arbiter and returns the address that   *)
(* wraps the sender end.  Supervisor::poll loops over Context::poll and    *)
(* restarts the actor (Context::restart) whenever the context ends while   *)
(* it is still connected.                                                  *)
(*                                                                         *)
(* Context, the mailbox channel, the address handles and the arbiter's     *)
(* task scheduling are not part of supervisor.rs; they are modelled from   *)
(* the specification's description of those collaborators.                 *)
(***************************************************************************)
EXTENDS Integers, Sequences, FiniteSets, TLC

\* ------------------------------------------------------------------------
\* Bounds and fixed sets
\* ------------------------------------------------------------------------

\* The supervised actors that may be started.
Actors == {1, 2}

\* The arbiters (event loops); start is called on the thread of CallerLoop.
Loops == {"main", "remote"}
CallerLoop == "main"

\* The address handles an actor may have: the one returned by start/start_in
\* and one clone of it.
Handles == {1, 2}

\* What a message makes the handler do: return normally, fail (the context
\* ends with Err) or call ctx.stop() (the context ends with Ready).
Kinds == {"ok", "fail", "stop"}

\* At most MaxMsgs messages are sent in a run, over all actors.
MaxMsgs == 3

\* At most MaxLiveMsgs messages are sent in a run checked under fairness.
MaxLiveMsgs == 2

\* At most MaxPairMsgs messages are sent in a run with two supervised actors.
MaxPairMsgs == 1

\* A context that ends at every poll is restarted at most MaxRestarts times
\* in a run; the loop of Supervisor::poll itself has no bound.
MaxRestarts == 3

\* mailbox::DEFAULT_CAPACITY, scaled down (the value is not set in
\* supervisor.rs; any positive capacity exercises the same behaviour).
DEFAULT_CAPACITY == 2

VARIABLES
    mode,       \* mode[a]: "none" | "start" | "start_in": how actor a was started
                \*          ("off": the actor is not part of this run)
    loop,       \* loop[a]: the arbiter the Supervisor task is scheduled on
    exec,       \* exec[a]: "none" | "pending" | "done": the Execute request of start_in
    sup,        \* sup[a]: "none" | "Running" | "Terminated": the Supervisor task
    pc,         \* pc[a]: "idle" (not inside poll) | "poll" (about to call ctx.poll)
                \*        | "match" (ctx.poll returned, outcome[a] holds the result)
    outcome,    \* outcome[a]: "none" | "NotReady" | "Ready" | "Err"
    woken,      \* woken[a]: the task has been notified and awaits a poll
    polled,     \* polled[a]: Supervisor::poll has been called at least once
    running,    \* running[l]: the set (empty or a singleton) of tasks inside poll on arbiter l
    chan,       \* chan[a]: the mailbox channel: ids of the queued messages, oldest first
    cap,        \* cap[a]: capacity the channel was created with
    alive,      \* alive[a]: the address handles that exist
    issued,     \* issued[a]: the address handles ever created
    ctxId,      \* ctxId[a]: identity of the Context (and mailbox) the Supervisor owns, 0 = none
    msgs,       \* msgs[a]: every message sent to a, by id: [kind, via, reply, epoch]
                \*          (epoch: the number of restarts when it was sent)
    processed,  \* processed[a]: ids of the messages the handler was started on, in order
    inflight,   \* inflight[a]: id of the message whose handler made the context end, 0 = none
    restarts,   \* restarts[a]: number of calls of Supervised::restarting
    initCalls,  \* initCalls[a]: number of calls of the initializer f
    actorsBuilt,\* actorsBuilt[a]: number of actor values constructed
    actorsDropped, \* actorsDropped[a]: number of actor values destroyed
    budget,     \* number of messages that may still be sent in this run
    faulty,     \* the actors whose context ends with Err at every poll
    target,     \* target[a]: the arbiter whose address was given to start_in
    builtOn,    \* builtOn[a]: the arbiter thread that built the context and ran f
    steps,      \* steps[a]: the calls start has made, in order
    ret,        \* ret[a]: what the last call of Supervisor::poll returned,
                \*         "none" before the first call and while a call runs
    connEnds,   \* connEnds[a]: Ready/Err outcomes the current call of poll met
                \*              while the context was connected (kept after a
                \*              return of Ready, 0 after a return of NotReady)
    hookBase    \* hookBase[a]: restarts[a] when the current call of poll began

vars == << mode, loop, exec, sup, pc, outcome, woken, polled, running, chan, cap,
           alive, issued, ctxId, msgs, processed, inflight, restarts, initCalls,
           actorsBuilt, actorsDropped, budget, faulty, target, builtOn, steps,
           ret, connEnds, hookBase >>

\* What only start, start_in and the Execute closure set.
startVars == << target, builtOn, steps >>

\* What only a call of Supervisor::poll sets.
callVars == << ret, connEnds, hookBase >>

\* ------------------------------------------------------------------------
\* Helpers
\* ------------------------------------------------------------------------

\* Ids of the messages of actor a with the given kind that the handler ran on.
ProcessedOfKind(a, k) ==
    {i \in 1..Len(processed[a]) : msgs[a][processed[a][i]].kind = k}

\* Number of handler failures / explicit stops of actor a so far.
Failures(a) == Cardinality(ProcessedOfKind(a, "fail"))
Stops(a) == Cardinality(ProcessedOfKind(a, "stop"))

\* Context connectivity: an address handle is outstanding or work is pending.
CtxConnected(a) == alive[a] # {} \/ chan[a] # << >>

\* The state before any actor is started: the actors of S may be started,
\* n messages may be sent, and the actors of F get a context that ends at
\* every poll.
InitWith(S, n, F) ==
    /\ faulty = F
    /\ target = [a \in Actors |-> "none"]
    /\ builtOn = [a \in Actors |-> "nowhere"]
    /\ steps = [a \in Actors |-> << >>]
    /\ ret = [a \in Actors |-> "none"]
    /\ connEnds = [a \in Actors |-> 0]
    /\ hookBase = [a \in Actors |-> 0]
    /\ budget = n
    /\ mode = [a \in Actors |-> IF a \in S THEN "none" ELSE "off"]
    /\ loop = [a \in Actors |-> CallerLoop]
    /\ exec = [a \in Actors |-> "none"]
    /\ sup = [a \in Actors |-> "none"]
    /\ pc = [a \in Actors |-> "idle"]
    /\ outcome = [a \in Actors |-> "none"]
    /\ woken = [a \in Actors |-> FALSE]
    /\ polled = [a \in Actors |-> FALSE]
    /\ running = [l \in Loops |-> {}]
    /\ chan = [a \in Actors |-> << >>]
    /\ cap = [a \in Actors |-> 0]
    /\ alive = [a \in Actors |-> {}]
    /\ issued = [a \in Actors |-> {}]
    /\ ctxId = [a \in Actors |-> 0]
    /\ msgs = [a \in Actors |-> << >>]
    /\ processed = [a \in Actors |-> << >>]
    /\ inflight = [a \in Actors |-> 0]
    /\ restarts = [a \in Actors |-> 0]
    /\ initCalls = [a \in Actors |-> 0]
    /\ actorsBuilt = [a \in Actors |-> 0]
    /\ actorsDropped = [a \in Actors |-> 0]

\* One supervised actor, MaxMsgs messages.
Init == InitWith({1}, MaxMsgs, {})


\* ------------------------------------------------------------------------
\* Construction: Supervisor::start and Supervisor::start_in
\* ------------------------------------------------------------------------

\* Mutant: the channel of start_in is created one slot too large.
StartInCapacity_PlusOne == DEFAULT_CAPACITY + 1

\* Capacity passed to sync_channel::channel in start_in.
StartInCapacity == DEFAULT_CAPACITY

\* Context::new(None): a fresh context with a default-capacity mailbox.
ContextNew(a) ==
    /\ ctxId' = [ctxId EXCEPT ![a] = 1]
    /\ cap' = [cap EXCEPT ![a] = DEFAULT_CAPACITY]
    /\ chan' = [chan EXCEPT ![a] = << >>]

\* Context::with_receiver(None, rx): a context on the existing channel.
ContextWithReceiver(a) ==
    /\ ctxId' = [ctxId EXCEPT ![a] = 1]
    /\ UNCHANGED << cap, chan >>

\* Arbiter::spawn(Supervisor { ctx }) on arbiter l: the task is scheduled
\* and will be polled.
ArbiterSpawn(a, l) ==
    /\ sup' = [sup EXCEPT ![a] = "Running"]
    /\ loop' = [loop EXCEPT ![a] = l]
    /\ woken' = [woken EXCEPT ![a] = TRUE]

\* let act = f(&mut ctx); ctx.set_actor(act)
RunInitializer(a) ==
    /\ initCalls' = [initCalls EXCEPT ![a] = @ + 1]
    /\ actorsBuilt' = [actorsBuilt EXCEPT ![a] = @ + 1]

\* The calls of start, in the order of its body: Context::new(None),
\* f(&mut ctx), ctx.address(), ctx.set_actor(act), Arbiter::spawn, return addr.
StartOrder ==
    << "Context::new", "f", "ctx.address", "ctx.set_actor", "Arbiter::spawn",
       "return" >>

\* Mutant: start builds the context and returns the address but never
\* spawns the Supervisor.
Start_NoSpawn(a) ==
    /\ mode[a] = "none"
    /\ mode' = [mode EXCEPT ![a] = "start"]
    /\ ContextNew(a)
    /\ RunInitializer(a)
    /\ alive' = [alive EXCEPT ![a] = {1}]
    /\ issued' = [issued EXCEPT ![a] = {1}]
    /\ builtOn' = [builtOn EXCEPT ![a] = CallerLoop]
    /\ steps' = [steps EXCEPT ![a] =
                   << "Context::new", "f", "ctx.address", "ctx.set_actor",
                      "return" >>]
    /\ UNCHANGED << sup, loop, woken, exec, pc, outcome, polled, running, msgs,
                    processed, inflight, restarts, actorsDropped, budget,
                    faulty, target, callVars >>

\* Mutant: start attaches the actor to the context before it takes the
\* address from it.
Start_AttachFirst(a) ==
    /\ mode[a] = "none"
    /\ mode' = [mode EXCEPT ![a] = "start"]
    /\ ContextNew(a)
    /\ RunInitializer(a)
    /\ alive' = [alive EXCEPT ![a] = {1}]
    /\ issued' = [issued EXCEPT ![a] = {1}]
    /\ ArbiterSpawn(a, CallerLoop)
    /\ builtOn' = [builtOn EXCEPT ![a] = CallerLoop]
    /\ steps' = [steps EXCEPT ![a] =
                   << "Context::new", "f", "ctx.set_actor", "ctx.address",
                      "Arbiter::spawn", "return" >>]
    /\ UNCHANGED << exec, pc, outcome, polled, running, msgs, processed,
                    inflight, restarts, actorsDropped, budget,
                    faulty, target, callVars >>

\* Supervisor::start(f), called on the thread of CallerLoop.
Start(a) ==
    /\ mode[a] = "none"
    /\ mode' = [mode EXCEPT ![a] = "start"]
    /\ ContextNew(a)
    /\ RunInitializer(a)
    /\ alive' = [alive EXCEPT ![a] = {1}]
    /\ issued' = [issued EXCEPT ![a] = {1}]
    /\ ArbiterSpawn(a, CallerLoop)
    /\ builtOn' = [builtOn EXCEPT ![a] = CallerLoop]
    /\ steps' = [steps EXCEPT ![a] = StartOrder]
    /\ UNCHANGED << exec, pc, outcome, polled, running, msgs, processed,
                    inflight, restarts, actorsDropped, budget,
                    faulty, target, callVars >>

\* Mutant: start_in builds the context, runs f and spawns the Supervisor in
\* the call itself, on the caller's arbiter, whatever address it was given.
StartIn_OnCallerThread(a, l) ==
    /\ mode[a] = "none"
    /\ mode' = [mode EXCEPT ![a] = "start_in"]
    /\ cap' = [cap EXCEPT ![a] = StartInCapacity]
    /\ chan' = [chan EXCEPT ![a] = << >>]
    /\ exec' = [exec EXCEPT ![a] = "done"]
    /\ alive' = [alive EXCEPT ![a] = {1}]
    /\ issued' = [issued EXCEPT ![a] = {1}]
    /\ target' = [target EXCEPT ![a] = l]
    /\ ctxId' = [ctxId EXCEPT ![a] = 1]
    /\ RunInitializer(a)
    /\ builtOn' = [builtOn EXCEPT ![a] = CallerLoop]
    /\ ArbiterSpawn(a, CallerLoop)
    /\ UNCHANGED << pc, outcome, polled, running, msgs, processed, inflight,
                    restarts, actorsDropped, budget, faulty, steps, callVars >>

\* Supervisor::start_in(addr, f) with addr the address of arbiter l: the
\* channel is created here, the closure is sent to l, Addr::new(tx) is returned.
StartIn(a, l) ==
    /\ mode[a] = "none"
    /\ mode' = [mode EXCEPT ![a] = "start_in"]
    /\ cap' = [cap EXCEPT ![a] = StartInCapacity]
    /\ chan' = [chan EXCEPT ![a] = << >>]
    /\ exec' = [exec EXCEPT ![a] = "pending"]
    /\ alive' = [alive EXCEPT ![a] = {1}]
    /\ issued' = [issued EXCEPT ![a] = {1}]
    /\ target' = [target EXCEPT ![a] = l]
    /\ UNCHANGED << loop, sup, pc, outcome, woken, polled, running, ctxId, msgs,
                    processed, inflight, restarts, initCalls, actorsBuilt,
                    actorsDropped, budget,
                    faulty, builtOn, steps, callVars >>

\* Mutant: the arbiter runs the Execute request again after it has run it.
ExecuteClosure_Redelivered(a) ==
    /\ exec[a] \in {"pending", "done"}
    /\ running[target[a]] = {}
    /\ exec' = [exec EXCEPT ![a] = "done"]
    /\ ContextWithReceiver(a)
    /\ RunInitializer(a)
    /\ builtOn' = [builtOn EXCEPT ![a] = target[a]]
    /\ ArbiterSpawn(a, target[a])
    /\ UNCHANGED << mode, pc, outcome, polled, running, alive, issued, msgs,
                    processed, inflight, restarts, actorsDropped, budget,
                    faulty, target, steps, callVars >>

\* Mutant: the closure builds its context with a mailbox of its own and not
\* on the receiver of the channel start_in created.
ExecuteClosure_OwnMailbox(a) ==
    /\ exec[a] = "pending"
    /\ running[target[a]] = {}
    /\ exec' = [exec EXCEPT ![a] = "done"]
    /\ ContextNew(a)
    /\ RunInitializer(a)
    /\ builtOn' = [builtOn EXCEPT ![a] = target[a]]
    /\ ArbiterSpawn(a, target[a])
    /\ UNCHANGED << mode, pc, outcome, polled, running, alive, issued, msgs,
                    processed, inflight, restarts, actorsDropped, budget,
                    faulty, target, steps, callVars >>

\* The closure of the Execute request, run by the target arbiter when its
\* thread is free.
ExecuteClosure(a) ==
    /\ exec[a] = "pending"
    /\ running[target[a]] = {}
    /\ exec' = [exec EXCEPT ![a] = "done"]
    /\ ContextWithReceiver(a)
    /\ RunInitializer(a)
    /\ builtOn' = [builtOn EXCEPT ![a] = target[a]]
    /\ ArbiterSpawn(a, target[a])
    /\ UNCHANGED << mode, pc, outcome, polled, running, alive, issued, msgs,
                    processed, inflight, restarts, actorsDropped, budget,
                    faulty, target, steps, callVars >>

\* ------------------------------------------------------------------------
\* Address handles and sending (address / mailbox channel)
\* ------------------------------------------------------------------------

\* addr.send(msg) through handle h with a message of kind k.  A send on a
\* full channel blocks: the action is not enabled until there is room.
Send(a, h, k) ==
    /\ h \in alive[a]
    /\ budget > 0
    /\ budget' = budget - 1
    /\ Len(chan[a]) < cap[a]
    /\ msgs' = [msgs EXCEPT ![a] =
                  Append(@, [kind |-> k, via |-> h, reply |-> "pending",
                             epoch |-> restarts[a]])]
    /\ chan' = [chan EXCEPT ![a] = Append(@, Len(msgs[a]) + 1)]
    /\ woken' = [woken EXCEPT ![a] = TRUE]
    /\ UNCHANGED << mode, loop, exec, sup, pc, outcome, polled, running, cap,
                    alive, issued, ctxId, processed, inflight, restarts,
                    initCalls, actorsBuilt, actorsDropped,
                    faulty, startVars, callVars >>

\* addr.clone(): one more handle to the same mailbox.
CloneAddr(a) ==
    /\ alive[a] # {}
    /\ issued[a] # Handles
    /\ LET h == CHOOSE x \in Handles \ issued[a] :
                    \A y \in Handles \ issued[a] : x <= y
       IN /\ alive' = [alive EXCEPT ![a] = @ \cup {h}]
          /\ issued' = [issued EXCEPT ![a] = @ \cup {h}]
    /\ UNCHANGED << mode, loop, exec, sup, pc, outcome, woken, polled, running,
                    chan, cap, ctxId, msgs, processed, inflight, restarts,
                    initCalls, actorsBuilt, actorsDropped, budget,
                    faulty, startVars, callVars >>

\* drop(addr): the handle is gone; the receiving task is notified.
DropAddr(a, h) ==
    /\ h \in alive[a]
    /\ alive' = [alive EXCEPT ![a] = @ \ {h}]
    /\ woken' = [woken EXCEPT ![a] = TRUE]
    /\ UNCHANGED << mode, loop, exec, sup, pc, outcome, polled, running, chan,
                    cap, issued, ctxId, msgs, processed, inflight, restarts,
                    initCalls, actorsBuilt, actorsDropped, budget,
                    faulty, startVars, callVars >>

\* ------------------------------------------------------------------------
\* Supervisor::poll
\* ------------------------------------------------------------------------

\* The arbiter calls Supervisor::poll on a notified task when its thread is free.
Drive(a) ==
    /\ sup[a] = "Running"
    /\ pc[a] = "idle"
    /\ woken[a]
    /\ running[loop[a]] = {}
    /\ running' = [running EXCEPT ![loop[a]] = {a}]
    /\ pc' = [pc EXCEPT ![a] = "poll"]
    /\ woken' = [woken EXCEPT ![a] = FALSE]
    /\ polled' = [polled EXCEPT ![a] = TRUE]
    /\ connEnds' = [connEnds EXCEPT ![a] = 0]
    /\ hookBase' = [hookBase EXCEPT ![a] = restarts[a]]
    /\ ret' = [ret EXCEPT ![a] = "none"]
    /\ UNCHANGED << mode, loop, exec, sup, outcome, chan, cap, alive, issued,
                    ctxId, msgs, processed, inflight, restarts, initCalls,
                    actorsBuilt, actorsDropped, budget,
                    faulty, startVars >>

\* Context::poll handles the oldest queued message.  A normal return keeps
\* the context polling; a failing handler ends it with Err and the reply of
\* that message is dropped (the sender sees Cancelled); ctx.stop() ends it
\* with Ready.
ContextPollMessage(a) ==
    /\ a \notin faulty
    /\ chan[a] # << >>
    /\ LET m == Head(chan[a])
           k == msgs[a][m].kind
       IN /\ chan' = [chan EXCEPT ![a] = Tail(@)]
          /\ processed' = [processed EXCEPT ![a] = Append(@, m)]
          /\ msgs' = [msgs EXCEPT ![a][m].reply =
                        IF k = "fail" THEN "cancelled" ELSE "ok"]
          /\ inflight' = [inflight EXCEPT ![a] = IF k = "fail" THEN m ELSE 0]
          /\ outcome' = [outcome EXCEPT ![a] =
                           CASE k = "ok" -> "none"
                             [] k = "fail" -> "Err"
                             [] k = "stop" -> "Ready"]
          /\ pc' = [pc EXCEPT ![a] = IF k = "ok" THEN "poll" ELSE "match"]

\* Context::poll with nothing queued: the context suspends while an address
\* handle exists, and is complete when none does.
ContextPollEmpty(a) ==
    /\ a \notin faulty
    /\ chan[a] = << >>
    /\ outcome' = [outcome EXCEPT ![a] =
                     IF alive[a] # {} THEN "NotReady" ELSE "Ready"]
    /\ pc' = [pc EXCEPT ![a] = "match"]
    /\ UNCHANGED << chan, processed, msgs, inflight >>

\* Context::poll of a context that fails as soon as it is polled (say, the
\* actor panics when it starts): Err at once, nothing is taken off the mailbox.
ContextPollFaulty(a) ==
    /\ a \in faulty
    /\ restarts[a] < MaxRestarts
    /\ outcome' = [outcome EXCEPT ![a] = "Err"]
    /\ pc' = [pc EXCEPT ![a] = "match"]
    /\ UNCHANGED << chan, processed, msgs, inflight >>

\* match self.ctx.poll()
PollContext(a) ==
    /\ pc[a] = "poll"
    /\ (ContextPollMessage(a) \/ ContextPollEmpty(a) \/ ContextPollFaulty(a))
    /\ UNCHANGED << mode, loop, exec, sup, woken, polled, running, cap, alive,
                    issued, ctxId, restarts, initCalls, actorsBuilt,
                    actorsDropped, budget,
                    faulty, startVars, callVars >>

\* Mutant: on a suspended context poll looks at the connectivity as well and
\* ends the Supervisor when the context is disconnected by then.
PollNotReady_CheckConnected(a) ==
    /\ pc[a] = "match"
    /\ outcome[a] = "NotReady"
    /\ pc' = [pc EXCEPT ![a] = "idle"]
    /\ outcome' = [outcome EXCEPT ![a] = "none"]
    /\ running' = [running EXCEPT ![loop[a]] = {}]
    /\ ret' = [ret EXCEPT ![a] = IF CtxConnected(a) THEN "NotReady" ELSE "Ready"]
    /\ sup' = [sup EXCEPT ![a] = IF CtxConnected(a) THEN @ ELSE "Terminated"]
    /\ UNCHANGED << connEnds, hookBase >>
    /\ UNCHANGED << mode, loop, exec, woken, polled, chan, cap, alive,
                    issued, ctxId, msgs, processed, inflight, restarts,
                    initCalls, actorsBuilt, actorsDropped, budget,
                    faulty, startVars >>

\* Ok(Async::NotReady) => return Ok(Async::NotReady)
PollNotReady(a) ==
    /\ pc[a] = "match"
    /\ outcome[a] = "NotReady"
    /\ pc' = [pc EXCEPT ![a] = "idle"]
    /\ outcome' = [outcome EXCEPT ![a] = "none"]
    /\ running' = [running EXCEPT ![loop[a]] = {}]
    /\ ret' = [ret EXCEPT ![a] = "NotReady"]
    /\ connEnds' = [connEnds EXCEPT ![a] = 0]
    /\ hookBase' = [hookBase EXCEPT ![a] = restarts[a]]
    /\ UNCHANGED << mode, loop, exec, sup, woken, polled, chan, cap, alive,
                    issued, ctxId, msgs, processed, inflight, restarts,
                    initCalls, actorsBuilt, actorsDropped, budget,
                    faulty, startVars >>

\* Context::restart when connected: Supervised::restarting runs on the
\* existing actor and context, and restart returns true.
ContextRestart(a) ==
    /\ restarts' = [restarts EXCEPT ![a] = @ + 1]
    /\ inflight' = [inflight EXCEPT ![a] = 0]
    /\ UNCHANGED << chan, ctxId, msgs, initCalls, actorsBuilt >>

\* poll returned Ok(Async::Ready(())): the arbiter drops the finished
\* Supervisor, and with it the Context and the actor.
ReleaseTask(a) ==
    /\ sup' = [sup EXCEPT ![a] = "Terminated"]
    /\ ctxId' = [ctxId EXCEPT ![a] = 0]
    /\ actorsDropped' = [actorsDropped EXCEPT ![a] = @ + 1]
    /\ inflight' = [inflight EXCEPT ![a] = 0]

\* Mutant: only a failure (Err) restarts; an explicit stop ends the supervisor.
RestartDecision_OnlyOnErr(a) == CtxConnected(a) /\ outcome[a] = "Err"

\* Mutant: the supervisor gives up after the first restart.
RestartDecision_RestartLimit(a) == CtxConnected(a) /\ restarts[a] < 1

\* Mutant: every context that ended is restarted, connected or not.
RestartDecision_Always(a) == TRUE

\* The value of self.ctx.restart(): true iff the context is connected.
RestartDecision(a) == CtxConnected(a)

\* Mutant: the restart puts the message that was being handled back at the
\* head of the mailbox.
SupervisorRestart_Replay(a) ==
    /\ restarts' = [restarts EXCEPT ![a] = @ + 1]
    /\ inflight' = [inflight EXCEPT ![a] = 0]
    /\ chan' = [chan EXCEPT ![a] =
                  IF inflight[a] # 0 THEN << inflight[a] >> \o @ ELSE @]
    /\ UNCHANGED << ctxId, msgs, initCalls, actorsBuilt >>

\* Mutant: the restart puts the message that was being handled back at the
\* tail of the mailbox.
SupervisorRestart_Requeue(a) ==
    /\ restarts' = [restarts EXCEPT ![a] = @ + 1]
    /\ inflight' = [inflight EXCEPT ![a] = 0]
    /\ chan' = [chan EXCEPT ![a] =
                  IF inflight[a] # 0 THEN Append(@, inflight[a]) ELSE @]
    /\ UNCHANGED << ctxId, msgs, initCalls, actorsBuilt >>

\* Mutant: the restart replaces the context by a new one with a new mailbox.
SupervisorRestart_NewContext(a) ==
    /\ restarts' = [restarts EXCEPT ![a] = @ + 1]
    /\ inflight' = [inflight EXCEPT ![a] = 0]
    /\ ctxId' = [ctxId EXCEPT ![a] = @ + 1]
    /\ chan' = [chan EXCEPT ![a] = << >>]
    /\ UNCHANGED << msgs, initCalls, actorsBuilt >>

\* Mutant: the restart runs the initializer again and builds a new actor.
SupervisorRestart_Rebuild(a) ==
    /\ restarts' = [restarts EXCEPT ![a] = @ + 1]
    /\ inflight' = [inflight EXCEPT ![a] = 0]
    /\ initCalls' = [initCalls EXCEPT ![a] = @ + 1]
    /\ actorsBuilt' = [actorsBuilt EXCEPT ![a] = @ + 1]
    /\ UNCHANGED << chan, ctxId, msgs >>

\* Mutant: after an explicit stop the context is polled again without the
\* restart hook; the hook runs after failures only.
SupervisorRestart_NotOnStop(a) ==
    IF outcome[a] = "Ready"
        THEN /\ inflight' = [inflight EXCEPT ![a] = 0]
             /\ UNCHANGED << restarts, chan, ctxId, msgs, initCalls, actorsBuilt >>
        ELSE ContextRestart(a)

\* What the supervisor does to restart: nothing but self.ctx.restart().
SupervisorRestart(a) == ContextRestart(a)

\* Mutant: after a restart poll returns NotReady and waits to be polled again.
LoopAgain_Yield(a) ==
    /\ pc' = [pc EXCEPT ![a] = "idle"]
    /\ running' = [running EXCEPT ![loop[a]] = {}]
    /\ woken' = [woken EXCEPT ![a] = TRUE]
    /\ ret' = [ret EXCEPT ![a] = "NotReady"]
    /\ UNCHANGED << sup, actorsDropped >>

\* Mutant: after a restart the task gives the thread back to the arbiter
\* before it polls the context again.
LoopAgain_ReleaseThread(a) ==
    /\ pc' = [pc EXCEPT ![a] = "poll"]
    /\ running' = [running EXCEPT ![loop[a]] = {}]
    /\ UNCHANGED << sup, actorsDropped, woken, ret >>

\* Mutant: poll restarts a context once per call; at the second end of the
\* context in one call it returns NotReady and asks to be polled again.
LoopAgain_OncePerCall(a) ==
    /\ pc' = [pc EXCEPT ![a] = IF connEnds[a] >= 1 THEN "idle" ELSE "poll"]
    /\ running' = [running EXCEPT ![loop[a]] =
                      IF connEnds[a] >= 1 THEN {} ELSE @]
    /\ woken' = [woken EXCEPT ![a] = IF connEnds[a] >= 1 THEN TRUE ELSE @]
    /\ ret' = [ret EXCEPT ![a] = IF connEnds[a] >= 1 THEN "NotReady" ELSE @]
    /\ UNCHANGED << sup, actorsDropped >>

\* restart() returned true: the loop goes round, ctx.poll is called again
\* inside the same call of Supervisor::poll.
LoopAgain(a) ==
    /\ pc' = [pc EXCEPT ![a] = "poll"]
    /\ UNCHANGED << sup, running, actorsDropped, woken, ret >>

\* Mutant: a disconnected context makes poll return NotReady, not Ready.
ReturnReady_NotReady(a) ==
    /\ pc' = [pc EXCEPT ![a] = "idle"]
    /\ running' = [running EXCEPT ![loop[a]] = {}]
    /\ ret' = [ret EXCEPT ![a] = "NotReady"]
    /\ UNCHANGED << sup, ctxId, actorsDropped, inflight, chan, msgs, restarts,
                    initCalls, actorsBuilt, woken >>

\* Mutant: a failed context found disconnected makes poll return the error.
ReturnReady_Err(a) ==
    /\ ReleaseTask(a)
    /\ pc' = [pc EXCEPT ![a] = "idle"]
    /\ running' = [running EXCEPT ![loop[a]] = {}]
    /\ ret' = [ret EXCEPT ![a] = IF outcome[a] = "Err" THEN "Err" ELSE "Ready"]
    /\ UNCHANGED << chan, msgs, restarts, initCalls, actorsBuilt, woken >>

\* restart() returned false: return Ok(Async::Ready(())).
ReturnReady(a) ==
    /\ ReleaseTask(a)
    /\ pc' = [pc EXCEPT ![a] = "idle"]
    /\ running' = [running EXCEPT ![loop[a]] = {}]
    /\ ret' = [ret EXCEPT ![a] = "Ready"]
    /\ UNCHANGED << chan, msgs, restarts, initCalls, actorsBuilt, woken >>

\* Ok(Async::Ready(_)) | Err(_) => if !self.ctx.restart() { return Ok(Ready) }
PollReadyOrErr(a) ==
    /\ pc[a] = "match"
    /\ outcome[a] \in {"Ready", "Err"}
    /\ outcome' = [outcome EXCEPT ![a] = "none"]
    /\ connEnds' = [connEnds EXCEPT ![a] = IF CtxConnected(a) THEN @ + 1 ELSE @]
    /\ IF RestartDecision(a)
         THEN SupervisorRestart(a) /\ LoopAgain(a)
         ELSE ReturnReady(a)
    /\ UNCHANGED << mode, loop, exec, polled, cap, alive, issued,
                    processed, budget,
                    faulty, startVars, hookBase >>

\* ------------------------------------------------------------------------
\* Specification
\* ------------------------------------------------------------------------

Next ==
    \/ \E a \in Actors : Start(a)
    \/ \E a \in Actors, l \in Loops : StartIn(a, l)
    \/ \E a \in Actors : ExecuteClosure(a)
    \/ \E a \in Actors, h \in Handles, k \in Kinds : Send(a, h, k)
    \/ \E a \in Actors : CloneAddr(a)
    \/ \E a \in Actors, h \in Handles : DropAddr(a, h)
    \/ \E a \in Actors : Drive(a)
    \/ \E a \in Actors : PollContext(a)
    \/ \E a \in Actors : PollNotReady(a)
    \/ \E a \in Actors : PollReadyOrErr(a)

Spec == Init /\ [][Next]_vars

\* The arbiter is a fair scheduler of its Supervisor tasks: a notified task
\* is polled, and a poll that has begun runs on.  Senders, address holders
\* and the arbiter's handling of Execute requests are not forced to act.
SupervisorStep(a) ==
    Drive(a) \/ PollContext(a) \/ PollNotReady(a) \/ PollReadyOrErr(a)

Fairness == \A a \in Actors : WF_vars(SupervisorStep(a))

\* One supervised actor, MaxLiveMsgs messages.
InitLive == InitWith({1}, MaxLiveMsgs, {})

FairSpec == InitLive /\ [][Next]_vars /\ Fairness

\* Two supervised actors and MaxPairMsgs messages.  Actor 1 has either a context
\* that ends at every poll or a healthy one, actor 2 a healthy one.
InitPair == \E F \in {{}, {1}} : InitWith(Actors, MaxPairMsgs, F)

\* The steps of the runs with two actors: those of Next, but each Address is
\* held through the one handle start or start_in returned and is never cloned.
PairNext ==
    \/ \E a \in Actors : Start(a)
    \/ \E a \in Actors, l \in Loops : StartIn(a, l)
    \/ \E a \in Actors : ExecuteClosure(a)
    \/ \E a \in Actors, h \in Handles, k \in Kinds : Send(a, h, k)
    \/ \E a \in Actors, h \in Handles : DropAddr(a, h)
    \/ \E a \in Actors : Drive(a)
    \/ \E a \in Actors : PollContext(a)
    \/ \E a \in Actors : PollNotReady(a)
    \/ \E a \in Actors : PollReadyOrErr(a)

PairSpec == InitPair /\ [][PairNext]_vars

\* The steps of the runs in which messages are sent only through the address
\* start_in returned and only while the Execute request is still pending.
BufferedNext ==
    \/ \E a \in Actors : Start(a)
    \/ \E a \in Actors, l \in Loops : StartIn(a, l)
    \/ \E a \in Actors : ExecuteClosure(a)
    \/ \E a \in Actors, h \in Handles, k \in Kinds :
          exec[a] = "pending" /\ Send(a, h, k)
    \/ \E a \in Actors : CloneAddr(a)
    \/ \E a \in Actors, h \in Handles : DropAddr(a, h)
    \/ \E a \in Actors : Drive(a)
    \/ \E a \in Actors : PollContext(a)
    \/ \E a \in Actors : PollNotReady(a)
    \/ \E a \in Actors : PollReadyOrErr(a)

BufferedSpec == InitLive /\ [][BufferedNext]_vars /\ Fairness


\* ------------------------------------------------------------------------
\* Properties
\* ------------------------------------------------------------------------

\* The actor's task is inside a call of Supervisor::poll.
InPoll(a) == pc[a] # "idle"

\* Supervisor::poll is at the Ready/Err arm of its match.
AtReadyOrErr(a) == pc[a] = "match" /\ outcome[a] \in {"Ready", "Err"}

\* C1: inside one call of Supervisor::poll, a completed or failed context
\* that is still connected gets the restart hook exactly once and is polled
\* again in the same call, the task keeping its arbiter's thread; the hook
\* runs nowhere else; and the call returns only on a suspended context or on
\* a completed/failed one found disconnected.
C1_RestartStep(a) ==
    /\ (AtReadyOrErr(a) /\ CtxConnected(a) /\ outcome'[a] # outcome[a])
          => /\ restarts'[a] = restarts[a] + 1
             /\ pc'[a] = "poll"
             /\ running'[loop[a]] = {a}
             /\ sup'[a] = "Running"
    /\ restarts'[a] # restarts[a]
          => /\ AtReadyOrErr(a) /\ CtxConnected(a)
             /\ restarts'[a] = restarts[a] + 1
    /\ (InPoll(a) /\ ~InPoll(a)')
          => \/ pc[a] = "match" /\ outcome[a] = "NotReady"
             \/ AtReadyOrErr(a) /\ ~CtxConnected(a)
    /\ InPoll(a) => running[loop[a]] = {a}

C1_RestartAndRedriveInSameCall == [][\A a \in Actors : C1_RestartStep(a)]_vars

\* C1 witness: the hook has run and the same call is about to poll the
\* context again.
C1_Witness ==
    \E a \in Actors : /\ restarts[a] >= 1 /\ pc[a] = "poll"
                      /\ running[loop[a]] = {a} /\ Failures(a) + Stops(a) >= 1

\* A message is queued in the mailbox / has been handed to the handler.
Queued(a, i) == \E j \in 1..Len(chan[a]) : chan[a][j] = i
Handled(a, i) == \E j \in 1..Len(processed[a]) : processed[a][j] = i

\* C2 as stated: with an address handle alive, the hook has run exactly as
\* often as the handler has failed.
C2_HookCountEqualsFailures ==
    \A a \in Actors :
        (alive[a] # {} /\ sup[a] # "none" /\ pc[a] # "match")
            => restarts[a] = Failures(a)

\* C2 amended, safety part: with an address handle alive the supervisor is
\* Running and the hook has run once per handler failure and once per
\* explicit stop.
C2_Counts(a) ==
    (alive[a] # {} /\ sup[a] # "none")
        => /\ sup[a] = "Running"
           /\ pc[a] # "match" => restarts[a] = Failures(a) + Stops(a)

\* A send appends to the mailbox of the same context.
C2_SendStep(a) ==
    Len(msgs'[a]) # Len(msgs[a])
        => /\ chan'[a] = Append(chan[a], Len(msgs[a]) + 1)
           /\ ctxId'[a] = ctxId[a]
           /\ msgs'[a][Len(msgs'[a])].via \in alive[a]

\* C2 amended: the counts above, in every interleaving; a send is enqueued
\* into the same mailbox; and a message queued at a running supervisor is
\* processed.
C2_RestartCountAndRouting ==
    /\ [](\A a \in Actors : C2_Counts(a))
    /\ [][\A a \in Actors : C2_SendStep(a)]_vars
    /\ \A a \in Actors : \A i \in 1..(MaxMsgs + 1) :
          (sup[a] = "Running" /\ Queued(a, i)) ~> Handled(a, i)

\* C2 witness: an explicit stop with a handle alive, the hook has run for it,
\* and a message sent after that restart has been processed.
C2_Witness ==
    \E a \in Actors :
        /\ alive[a] # {} /\ Stops(a) >= 1 /\ sup[a] = "Running"
        /\ restarts[a] = Failures(a) + Stops(a)
        /\ \E i \in 1..Len(msgs[a]) :
              /\ msgs[a][i].epoch = restarts[a] /\ Handled(a, i)
              /\ msgs[a][i].epoch >= 1


\* C3: once every address handle of an idle actor (empty mailbox) is gone, a
\* fairly scheduled supervisor reaches Terminated, and it does so by the
\* Ready/Err arm returning ready; then the context and the actor are
\* released, and Terminated is absorbing: the task is never inside poll
\* again and the hook never runs again.
C3_Released(a) ==
    sup[a] = "Terminated"
        => /\ pc[a] = "idle" /\ outcome[a] = "none"
           /\ ctxId[a] = 0
           /\ actorsDropped[a] = 1
           /\ running[loop[a]] = {}

C3_AbsorbingStep(a) ==
    /\ (sup[a] # "Terminated" /\ sup'[a] = "Terminated") => AtReadyOrErr(a)
    /\ sup[a] = "Terminated"
          => /\ sup'[a] = "Terminated"
             /\ pc'[a] = "idle"
             /\ restarts'[a] = restarts[a]

C3_DroppedIdleActorTerminates ==
    /\ \A a \in Actors :
          (sup[a] = "Running" /\ alive[a] = {} /\ chan[a] = << >>)
              ~> (sup[a] = "Terminated")
    /\ [](\A a \in Actors : C3_Released(a))
    /\ [][\A a \in Actors : C3_AbsorbingStep(a)]_vars

\* C3 witness: an actor that never received a message is Terminated after
\* its only address handle was dropped.
C3_Witness ==
    \E a \in Actors : /\ sup[a] = "Terminated" /\ msgs[a] = << >>
                      /\ alive[a] = {} /\ restarts[a] = 0 /\ polled[a]

\* Every message the handler of a ran on made it fail.
OnlyFailures(a) == Failures(a) = Len(processed[a])

\* C4: the supervisor becomes Terminated only at a Ready/Err outcome with
\* the context disconnected; with an address handle held it is never
\* Terminated, and an actor whose handler failed on every message has been
\* restarted once per failure.
C4_TerminateStep(a) ==
    (sup[a] # "Terminated" /\ sup'[a] = "Terminated")
        => AtReadyOrErr(a) /\ ~CtxConnected(a)

C4_HeldAddress(a) ==
    (alive[a] # {} /\ sup[a] # "none")
        => /\ sup[a] = "Running"
           /\ (OnlyFailures(a) /\ pc[a] # "match") => restarts[a] = Len(processed[a])

C4_TerminatedOnlyWhenDisconnected ==
    /\ [][\A a \in Actors : C4_TerminateStep(a)]_vars
    /\ [](\A a \in Actors : C4_HeldAddress(a))

\* C4 witness: three failures in a row, an address handle held, the
\* supervisor Running after as many restarts.
C4_Witness ==
    \E a \in Actors :
        /\ alive[a] # {} /\ sup[a] = "Running" /\ pc[a] = "idle"
        /\ Len(processed[a]) >= 3 /\ OnlyFailures(a)
        /\ restarts[a] = Len(processed[a])


\* Number of times the handler was started on message i of actor a.
TimesHandled(a, i) ==
    Cardinality({j \in 1..Len(processed[a]) : processed[a][j] = i})

\* C5: a message whose handler failed is answered Cancelled and is never
\* handled a second time; every other handled message, whenever it was sent
\* and through whichever address, is answered with its value; a message not
\* yet handled is still queued and unanswered.
C5_Reply(a, i) ==
    /\ TimesHandled(a, i) <= 1
    /\ Handled(a, i) =>
          msgs[a][i].reply = IF msgs[a][i].kind = "fail" THEN "cancelled" ELSE "ok"
    /\ ~Handled(a, i) => msgs[a][i].reply = "pending" /\ Queued(a, i)

C5_FailedMessageCancelledOthersAnswered ==
    \A a \in Actors : \A i \in 1..Len(msgs[a]) : C5_Reply(a, i)

\* C5 witness: M failed and is Cancelled; N, sent through the same address
\* after the restart, was handled and answered.
C5_Witness ==
    \E a \in Actors : \E m, n \in 1..Len(msgs[a]) :
        /\ msgs[a][m].kind = "fail" /\ msgs[a][m].reply = "cancelled"
        /\ m < n /\ msgs[a][n].via = msgs[a][m].via
        /\ msgs[a][n].epoch > msgs[a][m].epoch
        /\ msgs[a][n].kind = "ok" /\ msgs[a][n].reply = "ok"

\* The ids lo..hi in increasing order.
RECURSIVE Range(_, _)
Range(lo, hi) == IF lo > hi THEN << >> ELSE << lo >> \o Range(lo + 1, hi)

\* C6: the restart step changes neither the mailbox (its queued messages
\* and their order), nor the context and address identity, nor the handles;
\* and at all times the handled messages followed by the queued ones are
\* exactly the sent messages in send order, the only Cancelled ones being
\* those whose handler failed.
C6_RestartFrame(a) ==
    restarts'[a] # restarts[a]
        => /\ chan'[a] = chan[a]
           /\ ctxId'[a] = ctxId[a] /\ ctxId[a] # 0
           /\ alive'[a] = alive[a] /\ issued'[a] = issued[a]
           /\ cap'[a] = cap[a]
           /\ msgs'[a] = msgs[a]
           /\ processed'[a] = processed[a]

C6_NothingLost(a) ==
    /\ processed[a] \o chan[a] = Range(1, Len(msgs[a]))
    /\ \A i \in 1..Len(msgs[a]) :
          msgs[a][i].reply = "cancelled"
              <=> (Handled(a, i) /\ msgs[a][i].kind = "fail")

C7_Lifecycle(a) ==
    /\ initCalls[a] <= 1
    /\ actorsBuilt[a] = initCalls[a]
    /\ initCalls[a] = 1 <=> sup[a] # "none"
    /\ sup[a] # "none" => mode[a] \in {"start", "start_in"}
    /\ actorsDropped[a] = IF sup[a] = "Terminated" THEN 1 ELSE 0

C7_ActorBuiltOnceDroppedOnce == \A a \in Actors : C7_Lifecycle(a)

\* C7 witness: a supervisor Terminated after two restarts.
C7_Witness ==
    \E a \in Actors : /\ sup[a] = "Terminated" /\ restarts[a] >= 2
                      /\ actorsBuilt[a] = 1 /\ actorsDropped[a] = 1


\* A send through any live handle of a, with any kind of message, can complete.
SendAccepted(a) == \A h \in alive[a] : \A k \in Kinds : ENABLED Send(a, h, k)

\* No send to a can complete, through whichever handle.
SendBlocked(a) == \A h \in Handles : \A k \in Kinds : ~ENABLED Send(a, h, k)

\* C8: after start_in, while the target arbiter has not run the Execute
\* request, the first DEFAULT_CAPACITY sends complete and stay buffered in
\* send order; a further send cannot complete before the closure has run
\* and the context has taken a message off the channel; the channel never
\* holds more than DEFAULT_CAPACITY messages and no message is dropped.
C8_StartIn(a) ==
    mode[a] = "start_in"
        => /\ Len(chan[a]) <= DEFAULT_CAPACITY
           /\ processed[a] \o chan[a] = Range(1, Len(msgs[a]))
           /\ exec[a] = "pending"
                 => /\ processed[a] = << >>
                    /\ (Len(msgs[a]) < DEFAULT_CAPACITY /\ budget > 0)
                          => SendAccepted(a)
                    /\ Len(msgs[a]) = DEFAULT_CAPACITY => SendBlocked(a)
           /\ Len(msgs[a]) > DEFAULT_CAPACITY
                 => exec[a] = "done" /\ Len(processed[a]) >= 1

C8_StartInBackpressure == \A a \in Actors : C8_StartIn(a)

\* C8 witness: DEFAULT_CAPACITY messages are buffered, the Execute request
\* is still pending on the remote arbiter, and a sender that wants to send
\* one more is blocked.
C8_Witness ==
    \E a \in Actors :
        /\ mode[a] = "start_in" /\ exec[a] = "pending" /\ target[a] # CallerLoop
        /\ Len(chan[a]) = DEFAULT_CAPACITY
        /\ alive[a] # {} /\ budget > 0
        /\ SendBlocked(a)

\* C9: the address returned by start accepts messages before the first
\* call of Supervisor::poll: they are queued in send order, up to the
\* capacity; and under fair scheduling every queued message is handled.
C9_BeforeFirstPoll(a) ==
    (mode[a] = "start" /\ ~polled[a])
        => /\ sup[a] = "Running"
           /\ chan[a] = Range(1, Len(msgs[a]))
           /\ Len(chan[a]) <= DEFAULT_CAPACITY
           /\ (Len(chan[a]) < DEFAULT_CAPACITY /\ budget > 0) => SendAccepted(a)

C9_AddressUsableAtOnce ==
    /\ [](\A a \in Actors : C9_BeforeFirstPoll(a))
    /\ \A a \in Actors : \A i \in 1..(MaxLiveMsgs + 1) :
          (mode[a] = "start" /\ Queued(a, i)) ~> Handled(a, i)

\* C9 witness: messages sent after start and before the first poll fill
\* the mailbox.
C9_Witness ==
    \E a \in Actors : /\ mode[a] = "start" /\ ~polled[a]
                      /\ Len(chan[a]) = DEFAULT_CAPACITY

\* C10: of two messages sent through the same address, the handler is
\* started on the earlier one first, whatever is sent through other
\* addresses and however many restarts happen in between.
C10_FifoPerAddress ==
    \A a \in Actors : \A j1, j2 \in 1..Len(processed[a]) :
        (j1 < j2 /\ msgs[a][processed[a][j1]].via = msgs[a][processed[a][j2]].via)
            => processed[a][j1] < processed[a][j2]

\* C10 witness: three messages handled, through two addresses, with a
\* restart between two messages of the same address.
C10_Witness ==
    \E a \in Actors :
        /\ Len(processed[a]) = 3 /\ restarts[a] >= 1
        /\ msgs[a][1].via = msgs[a][3].via /\ msgs[a][2].via # msgs[a][1].via
        /\ msgs[a][1].kind = "fail"

\* While the target arbiter has not processed the Execute request of a:
\* there is no Supervisor and no context, f has not run, nothing was taken
\* off the channel, and once the channel is full no send can complete.
C11_NotProcessed(a) ==
    exec[a] = "pending"
        => /\ sup[a] = "none" /\ ctxId[a] = 0 /\ builtOn[a] = "nowhere"
           /\ initCalls[a] = 0 /\ actorsBuilt[a] = 0
           /\ ~polled[a] /\ processed[a] = << >>
           /\ chan[a] = Range(1, Len(msgs[a]))
           /\ Len(chan[a]) = cap[a] => SendBlocked(a)

\* start_in creates at most one context and one Supervisor, by one run of f.
C11_AtMostOnce(a) ==
    mode[a] = "start_in"
        => /\ initCalls[a] <= 1 /\ actorsBuilt[a] <= 1
           /\ (exec[a] = "done") = (initCalls[a] = 1)
           /\ (exec[a] = "done") = (sup[a] # "none")

\* A step of the Execute request of a: it is processed once and not again,
\* only that step creates the Supervisor, and while the request waits the
\* channel is not drained.
C11_ExecuteStep(a) ==
    /\ exec[a] = "done" => /\ exec'[a] = "done"
                           /\ initCalls'[a] = initCalls[a]
                           /\ builtOn'[a] = builtOn[a]
    /\ (mode[a] = "start_in" /\ sup[a] = "none" /\ sup'[a] # "none")
          => (exec[a] = "pending" /\ exec'[a] = "done" /\ sup'[a] = "Running")
    /\ (exec[a] = "pending" /\ exec'[a] = "pending")
          => (Len(chan'[a]) >= Len(chan[a]) /\ processed'[a] = << >>)

\* C11: the Execute request of start_in is executed at most once and never
\* again; at most one context and one Supervisor are created per start_in;
\* as long as the target arbiter does not process the request there is no
\* Supervisor, the channel is not drained, and once the channel is full
\* every send through the returned address blocks.
C11_ExecuteAtMostOnce ==
    /\ [](\A a \in Actors : C11_NotProcessed(a) /\ C11_AtMostOnce(a))
    /\ [][\A a \in Actors : C11_ExecuteStep(a)]_vars

\* C11 witness: the Execute request has not been processed, the channel is
\* full with the messages sent so far and one more send is blocked, while
\* the arbiter that should run the request is the caller's own.
C11_Witness ==
    \E a \in Actors :
        /\ mode[a] = "start_in" /\ exec[a] = "pending" /\ target[a] = CallerLoop
        /\ sup[a] = "none" /\ Len(chan[a]) = cap[a] /\ Len(msgs[a]) = cap[a]
        /\ alive[a] # {} /\ budget > 0 /\ SendBlocked(a)

\* What Supervisor::poll has returned for a: never an error, and Ready
\* exactly when the Supervisor is Terminated.
C12_Result(a) ==
    /\ ret[a] \in {"none", "NotReady", "Ready"}
    /\ (ret[a] = "Ready") = (sup[a] = "Terminated")

\* The step in which Supervisor::poll deals with a failed context: senders
\* and address holders see nothing of it, the Supervisor stays Running or,
\* with no address left, becomes Terminated, and the call returns Ready or
\* does not return.
C12_AbsorbStep(a) ==
    (AtReadyOrErr(a) /\ outcome[a] = "Err" /\ outcome'[a] # outcome[a])
        => /\ chan' = chan /\ msgs' = msgs /\ processed' = processed
           /\ alive' = alive /\ issued' = issued /\ cap' = cap
           /\ sup'[a] \in {"Running", "Terminated"}
           /\ sup'[a] = "Terminated" => (alive[a] = {} /\ ret'[a] = "Ready")
           /\ sup'[a] = "Running" => (InPoll(a)' /\ ret'[a] = ret[a])
           /\ \A b \in Actors \ {a} : sup'[b] = sup[b] /\ pc'[b] = pc[b]

\* The step in which the context fails: the only reply it settles is the
\* Cancelled of the message in flight.
C12_FailStep(a) ==
    (outcome[a] # "Err" /\ outcome'[a] = "Err")
        => \A i \in 1..Len(msgs[a]) :
               msgs'[a][i] # msgs[a][i]
                   => /\ i = inflight'[a]
                      /\ msgs'[a][i] = [msgs[a][i] EXCEPT !.reply = "cancelled"]

\* C12: Supervisor::poll never returns an error, only NotReady or Ready; a
\* failed context changes nothing outside the Supervisor except the
\* Cancelled reply of the message in flight and, when no address is left,
\* the Terminated state.
C12_FailuresContained ==
    /\ [](\A a \in Actors : C12_Result(a))
    /\ [][\A a \in Actors : C12_AbsorbStep(a) /\ C12_FailStep(a)]_vars

\* C12 witness: the last message handled made its handler fail with no
\* address left; its sender got Cancelled, the Supervisor is Terminated and
\* the call returned Ready.
C12_Witness ==
    \E a \in Actors :
        /\ sup[a] = "Terminated" /\ ret[a] = "Ready" /\ restarts[a] = 0
        /\ processed[a] # << >>
        /\ LET m == processed[a][Len(processed[a])]
           IN msgs[a][m].kind = "fail" /\ msgs[a][m].reply = "cancelled"

\* The step of Supervisor::poll on a suspended context: the call returns
\* NotReady, the restart hook does not run and the Supervisor stays Running,
\* whether or not the context is still connected.
C13_SuspendStep(a) ==
    (pc[a] = "match" /\ outcome[a] = "NotReady" /\ pc'[a] # pc[a])
        => /\ ~InPoll(a)' /\ ret'[a] = "NotReady"
           /\ restarts'[a] = restarts[a]
           /\ sup'[a] = "Running" /\ ctxId'[a] = ctxId[a]
           /\ running'[loop[a]] = {}

\* A call of Supervisor::poll that ends with the Supervisor still Running
\* ended on a suspended context; and a call begins only for a notified task.
C13_YieldStep(a) ==
    /\ (InPoll(a) /\ ~InPoll(a)' /\ sup'[a] = "Running")
          => (outcome[a] = "NotReady" /\ ret'[a] = "NotReady")
    /\ (~InPoll(a) /\ InPoll(a)') => (woken[a] /\ ~woken'[a])

\* A task that has been polled is notified again by the step of e.
C13_NotifiedBy(a, e) ==
    (polled[a] /\ ~woken[a] /\ woken'[a]) => e

\* A message is enqueued for a / an address handle of a is dropped.
C13_Enqueued(a) == Len(msgs'[a]) = Len(msgs[a]) + 1 /\ chan'[a] # chan[a]
C13_HandleDropped(a) == alive'[a] # alive[a] /\ alive'[a] \subseteq alive[a]

C14_EndStep(a, o) ==
    (pc[a] = "match" /\ outcome[a] = o /\ outcome'[a] # outcome[a])
        => IF CtxConnected(a)
              THEN /\ restarts'[a] = restarts[a] + 1
                   /\ sup'[a] = "Running" /\ pc'[a] = "poll"
                   /\ ctxId'[a] = ctxId[a] /\ chan'[a] = chan[a]
                   /\ alive'[a] = alive[a] /\ actorsBuilt'[a] = actorsBuilt[a]
              ELSE /\ restarts'[a] = restarts[a]
                   /\ sup'[a] = "Terminated" /\ ret'[a] = "Ready"

\* An actor that has stopped itself while an address handle is held is
\* still supervised, and every stop it made has been followed by a restart.
C14_StoppedButHeld(a) ==
    (Stops(a) >= 1 /\ alive[a] # {})
        => /\ sup[a] = "Running"
           /\ pc[a] # "match" => restarts[a] = Stops(a) + Failures(a)

\* C14: Supervisor::poll treats a context that completed (the actor asked to
\* stop) exactly as one that failed: connected, it runs the restart hook and
\* goes on polling the same context, so the actor keeps receiving on the
\* same address; it terminates on a stop only when the context is
\* disconnected at that moment.
C14_StopHandledLikeFailure ==
    /\ [][\A a \in Actors : C14_EndStep(a, "Ready") /\ C14_EndStep(a, "Err")]_vars
    /\ [](\A a \in Actors : C14_StoppedButHeld(a))

\* C14 witness: the actor stopped itself twice and never failed; it was
\* restarted twice and then handled a third message, sent after the second
\* restart, and answered it.
C14_Witness ==
    \E a \in Actors :
        /\ Stops(a) = 2 /\ Failures(a) = 0 /\ restarts[a] = 2
        /\ sup[a] = "Running" /\ alive[a] # {}
        /\ \E i \in 1..Len(msgs[a]) :
              /\ msgs[a][i].kind = "ok" /\ msgs[a][i].epoch = 2
              /\ Handled(a, i) /\ msgs[a][i].reply = "ok"

\* The Supervisor tasks scheduled on arbiter l / those inside poll.
TasksOn(l) == {a \in Actors : sup[a] = "Running" /\ loop[a] = l}
PollingOn(l) == {a \in TasksOn(l) : InPoll(a)}

\* On every arbiter at most one task is inside poll, and it is the one that
\* holds the arbiter's thread.
C15_OneAtATime(l) ==
    /\ Cardinality(PollingOn(l)) <= 1
    /\ running[l] = PollingOn(l)

\* While a is inside poll, no other task of its arbiter and no Execute
\* request sent to that arbiter takes a step.
C15_OthersWait(a) ==
    (sup[a] = "Running" /\ InPoll(a))
        => \A b \in Actors \ {a} :
              /\ (sup[b] # "none" /\ loop[b] = loop[a])
                    => /\ pc'[b] = pc[b] /\ outcome'[b] = outcome[b]
                       /\ restarts'[b] = restarts[b] /\ sup'[b] = sup[b]
                       /\ processed'[b] = processed[b]
              /\ (exec[b] = "pending" /\ target[b] = loop[a])
                    => exec'[b] = "pending"

\* The restart step keeps the thread: from the restart hook the task goes
\* straight to the next poll of its context.
C15_RestartKeepsThread(a) ==
    (AtReadyOrErr(a) /\ CtxConnected(a) /\ outcome'[a] # outcome[a])
        => /\ restarts'[a] = restarts[a] + 1
           /\ pc'[a] = "poll" /\ running'[loop[a]] = {a}

\* C15: of the Supervisor tasks scheduled on one arbiter at most one runs at
\* any instant, and between a Supervisor's restart hook and the poll of the
\* context that follows it no other task of that arbiter takes a step.
C15_RestartAtomicOnLoop ==
    /\ [](\A l \in Loops : C15_OneAtATime(l))
    /\ [][\A a \in Actors : C15_OthersWait(a) /\ C15_RestartKeepsThread(a)]_vars

\* C15 witness: two Supervisors on one arbiter; one has just run the restart
\* hook after a handler failure and is about to poll its context again,
\* while the other has been notified and waits for the thread.
C15_Witness ==
    \E a \in Actors : \E b \in Actors \ {a} :
        /\ a \notin faulty /\ Failures(a) = 1
        /\ sup[a] = "Running" /\ sup[b] = "Running" /\ loop[a] = loop[b]
        /\ pc[a] = "poll" /\ connEnds[a] = 1 /\ restarts[a] = hookBase[a] + 1
        /\ pc[b] = "idle" /\ woken[b]

\* Where the parts of actor a are: with start everything is on the caller's
\* arbiter; with start_in nothing is built in the call, and the context, the
\* run of f and the Supervisor task are on the target arbiter and nowhere
\* else.
C16_Placed(a) ==
    /\ mode[a] = "start"
          => /\ sup[a] # "none" /\ loop[a] = CallerLoop
             /\ builtOn[a] = CallerLoop /\ target[a] = "none"
    /\ mode[a] = "start_in"
          => /\ target[a] \in Loops
             /\ builtOn[a] = (IF exec[a] = "pending" THEN "nowhere" ELSE target[a])
             /\ exec[a] = "pending"
                   => (sup[a] = "none" /\ ctxId[a] = 0 /\ initCalls[a] = 0)
             /\ sup[a] # "none" => loop[a] = target[a]
    /\ InPoll(a) => \A l \in Loops : (a \in running[l]) = (l = loop[a])

\* Once the Supervisor of a exists its arbiter never changes, and every
\* step of its poll, a restart included, is taken on that arbiter's thread.
C16_StaysStep(a) ==
    /\ sup[a] # "none"
          => /\ loop'[a] = loop[a] /\ builtOn'[a] = builtOn[a]
             /\ target'[a] = target[a]
    /\ (sup[a] # "none" /\ (restarts'[a] # restarts[a] \/ pc'[a] # pc[a]))
          => (a \in running[loop[a]] \/ a \in running'[loop[a]])
    /\ restarts'[a] # restarts[a] => running[loop[a]] = {a}

\* C16: an actor is bound to one arbiter for life.  start schedules the
\* Supervisor on the caller's arbiter; start_in builds the context, runs f
\* and schedules the Supervisor on the target arbiter only, not inside the
\* call; and every later poll and restart happens on that arbiter.
C16_BoundToOneLoop ==
    /\ [](\A a \in Actors : C16_Placed(a))
    /\ [][\A a \in Actors : C16_StaysStep(a)]_vars

\* C16 witness: an actor started with start_in on another arbiter than the
\* caller's has been restarted there, while an actor started with start
\* runs on the caller's arbiter.
C16_Witness ==
    \E a \in Actors : \E b \in Actors \ {a} :
        /\ mode[a] = "start_in" /\ target[a] # CallerLoop
        /\ builtOn[a] = target[a] /\ loop[a] = target[a]
        /\ restarts[a] >= 1 /\ a \in running[target[a]]
        /\ mode[b] = "start" /\ loop[b] = CallerLoop /\ b \in running[CallerLoop]

\* How often start has made call x for actor a, and when.
TimesCalled(a, x) == Cardinality({i \in 1..Len(steps[a]) : steps[a][i] = x})
Position(a, x) == CHOOSE i \in 1..Len(steps[a]) : steps[a][i] = x

\* start has made each call of order exactly once, and in that order.
StartedInOrder(a, order) ==
    /\ Len(steps[a]) = Len(order)
    /\ \A i \in 1..Len(order) : TimesCalled(a, order[i]) = 1
    /\ \A i \in 1..(Len(order) - 1) :
          Position(a, order[i]) < Position(a, order[i + 1])

\* What start leaves behind: a fresh mailbox of the default capacity, f run
\* once, the Supervisor scheduled on the caller's arbiter, one address.
C17_StartEffect(a) ==
    /\ cap[a] = DEFAULT_CAPACITY /\ initCalls[a] = 1
    /\ sup[a] # "none" /\ loop[a] = CallerLoop /\ issued[a] # {}
    /\ ~polled[a] => (sup[a] = "Running" /\ woken[a] /\ processed[a] = << >>)

\* C17 as stated: start builds the context, runs f once, attaches the actor,
\* then takes the address, then schedules the Supervisor and returns.
C17_AddressAfterAttach ==
    \A a \in Actors :
        mode[a] = "start"
            => /\ StartedInOrder(a, << "Context::new", "f", "ctx.set_actor",
                                       "ctx.address", "Arbiter::spawn", "return" >>)
               /\ C17_StartEffect(a)

\* C17, amended: start builds the context, runs f once, takes the address,
\* then attaches the actor, then schedules the Supervisor and returns.
C17_AddressBeforeAttach ==
    \A a \in Actors :
        mode[a] = "start"
            => /\ StartedInOrder(a, << "Context::new", "f", "ctx.address",
                                       "ctx.set_actor", "Arbiter::spawn", "return" >>)
               /\ C17_StartEffect(a)

\* C17 witness: start has just returned; the address was taken from the
\* context one call before the actor was attached to it.
C17_Witness ==
    \E a \in Actors :
        /\ mode[a] = "start" /\ ~polled[a] /\ sup[a] = "Running"
        /\ Position(a, "ctx.set_actor") = Position(a, "ctx.address") + 1
        /\ Position(a, "Arbiter::spawn") = Position(a, "ctx.set_actor") + 1

\* A step of Supervisor::poll at its match: the call returns at a suspended
\* context and at an ended one found disconnected, with NotReady and Ready
\* respectively, and goes on at an ended one found connected.
C18_MatchStep(a) ==
    (pc[a] = "match" /\ pc'[a] # pc[a])
        => /\ outcome[a] = "NotReady"
                 => (~InPoll(a)' /\ ret'[a] = "NotReady")
           /\ (outcome[a] \in {"Ready", "Err"} /\ ~CtxConnected(a))
                 => (~InPoll(a)' /\ ret'[a] = "Ready")
           /\ (outcome[a] \in {"Ready", "Err"} /\ CtxConnected(a))
                 => (InPoll(a)' /\ ret'[a] = ret[a])

\* A call returns nowhere else, with a result, and a result is set only by
\* a return.
C18_ReturnStep(a) ==
    /\ (InPoll(a) /\ ~InPoll(a)')
          => (pc[a] = "match" /\ ret'[a] \in {"NotReady", "Ready"})
    /\ (ret'[a] # ret[a] /\ ret'[a] # "none") => (InPoll(a) /\ ~InPoll(a)')
    /\ InPoll(a)' => ret'[a] = "none"

\* In the current call (or in the one that returned Ready) the hook has run once for
\* each ended outcome met while the context was connected.
C18_HooksInCall(a) ==
    polled[a] => /\ restarts[a] - hookBase[a] = connEnds[a]
                 /\ ret[a] = "Ready" => ~InPoll(a)

\* C18: a call of Supervisor::poll returns exactly when the context reports
\* suspended, or reports completed/failed while disconnected; it returns
\* NotReady in the first case and Ready in the second; and the restart hook
\* has run in the call as often as the context reported completed/failed
\* while connected.
C18_ReturnsAndHookCount ==
    /\ [][\A a \in Actors : C18_MatchStep(a) /\ C18_ReturnStep(a)]_vars
    /\ [](\A a \in Actors : C18_HooksInCall(a))

\* C18 witness: one call met the context failed twice while an address was
\* held, ran the hook twice, then met it failed with no address left and no
\* message queued, and returned Ready.
C18_Witness ==
    \E a \in Actors :
        /\ ~InPoll(a) /\ ret[a] = "Ready" /\ sup[a] = "Terminated"
        /\ connEnds[a] = 2 /\ restarts[a] = hookBase[a] + 2

\* The context of a ends at whatever poll and is connected: a is caught in
\* the loop of Supervisor::poll.
InRestartLoop(a) == a \in faulty /\ sup[a] = "Running" /\ InPoll(a) /\ CtxConnected(a)

\* A step taken while a is in the restart loop: the call of poll has not
\* returned after it, and it is no step of another Supervisor of a's
\* arbiter nor of an Execute request sent to that arbiter.
C19_StarvingStep(a) ==
    InRestartLoop(a)
        => /\ InPoll(a)' /\ running'[loop[a]] = {a} /\ ret'[a] = ret[a]
           /\ \A b \in Actors \ {a} :
                 /\ (sup[b] = "Running" /\ loop[b] = loop[a])
                       => /\ pc[b] = "idle" /\ pc'[b] = "idle"
                          /\ polled'[b] = polled[b]
                          /\ processed'[b] = processed[b]
                          /\ restarts'[b] = restarts[b]
                 /\ (exec[b] = "pending" /\ target[b] = loop[a])
                       => (exec'[b] = "pending" /\ sup'[b] = "none")

\* In the restart loop a message queued for a is never handled: the context
\* ends before it takes anything off the mailbox.
C19_Loops(a) ==
    (a \in faulty /\ sup[a] # "none")
        => /\ processed[a] = << >>
           /\ InPoll(a) => restarts[a] - hookBase[a] = connEnds[a]
           /\ ret[a] # "NotReady"

\* C19: while the context of one Supervisor ends after every restart and
\* stays connected, its call of poll does not return, and no other
\* Supervisor of the same arbiter and no Execute request sent to that
\* arbiter takes a step.
C19_RestartLoopStarvesLoop ==
    /\ [][\A a \in Actors : C19_StarvingStep(a)]_vars
    /\ [](\A a \in Actors : C19_Loops(a))

\* C19 witness: one call of poll has restarted the failing context as often
\* as the run allows; on the same arbiter another Supervisor, notified and
\* with a message queued, has never been polled.
C19_Witness ==
    \E a \in Actors : \E b \in Actors \ {a} :
        /\ InRestartLoop(a) /\ hookBase[a] = 0 /\ restarts[a] = MaxRestarts
        /\ sup[b] = "Running" /\ loop[b] = loop[a]
        /\ woken[b] /\ ~polled[b] /\ chan[b] # << >>

\* Message i of a has been sent (in the runs of BufferedSpec: through the
\* address start_in returned, before the Execute closure ran).
Sent(a, i) == i \in 1..Len(msgs[a])

\* The messages sent before the closure ran are at most a channel full;
\* each is handled at most once, is still queued as long as it is not
\* handled, and they are handled in send order.
C20_Buffered(a) ==
    /\ mode[a] # "start_in" => msgs[a] = << >>
    /\ mode[a] = "start_in"
          => /\ Len(msgs[a]) <= DEFAULT_CAPACITY
             /\ exec[a] = "pending" => chan[a] = Range(1, Len(msgs[a]))
             /\ \A i \in 1..Len(msgs[a]) :
                   /\ TimesHandled(a, i) <= 1
                   /\ Handled(a, i) => processed[a][i] = i
                   /\ ~Handled(a, i) => Queued(a, i)

\* The step that runs the Execute closure: the context it builds reads from
\* the channel the address writes to, with all that was sent on it so far.
C20_ClosureStep(a) ==
    (exec[a] = "pending" /\ exec'[a] = "done")
        => /\ chan'[a] = chan[a] /\ cap'[a] = cap[a]
           /\ chan'[a] = Range(1, Len(msgs[a]))
           /\ alive'[a] = alive[a] /\ msgs'[a] = msgs[a]
           /\ ctxId'[a] # 0 /\ sup'[a] = "Running" /\ woken'[a]

\* C20: the address start_in returns sends into the channel whose receiver
\* becomes the mailbox of the remote context: every message sent through it
\* before the closure runs is, once the closure has run and the Supervisor
\* is polled, handled by the actor, exactly once and in send order.
C20_BufferedMessagesDelivered ==
    /\ [](\A a \in Actors : C20_Buffered(a))
    /\ [][\A a \in Actors : C20_ClosureStep(a)]_vars
    /\ \A a \in Actors : \A i \in 1..DEFAULT_CAPACITY :
          (exec[a] = "done" /\ Sent(a, i)) ~> Handled(a, i)

\* C20 witness: a channel full of messages was sent before the closure ran
\* on another arbiter than the caller's, the first of them makes its handler
\* fail; all of them have been handled, in send order.
C20_Witness ==
    \E a \in Actors :
        /\ mode[a] = "start_in" /\ exec[a] = "done" /\ target[a] # CallerLoop
        /\ Len(msgs[a]) = DEFAULT_CAPACITY /\ msgs[a][1].kind = "fail"
        /\ processed[a] = Range(1, DEFAULT_CAPACITY)

====
